---- MODULE Spec2Model ----
(***************************************************************************)
(* Approval-gated tool-calling conversation engine of the virtual sales    *)
(* agent: the LangGraph state machine of virtual_sales_agent/graph.py, the *)
(* Streamlit approval front-end of main.py and the order transaction tool  *)
(* create_order of virtual_sales_agent/tools.py.                           *)
(***************************************************************************)
EXTENDS Integers, Sequences, FiniteSets, TLC

(***************************************************************************)
(* Bounds of the model.                                                    *)
(***************************************************************************)
MaxStock == 2
MaxOrders == 2
MaxMsgs == 5
MaxReprompts == 2
MaxSharedMsgs == 3

(***************************************************************************)
(* The store: tables products, orders, orders_details (store.db).          *)
(***************************************************************************)
VARIABLES products, orders, orders_details

\* history of the order tool: the stock the store started with and the
\* last create_order call (tables before it, arguments, result)
VARIABLES initStock, lastCall

\* concurrent create_order calls: each call's position and locals, the
\* connection holding the database write lock (0: none) and the tables
\* of its open transaction
VARIABLES tx, lock, uncommitted

\* the checkpointer's thread of each session's thread identifier, each
\* session's st.session_state, and the script run in progress in it
VARIABLES memory, session, run

\* history of the engine: the tool handlers that have run, the tool calls
\* the user has approved, and the last thing the user did in each session
VARIABLES handlerLog, approvals, lastEvent

storeVars == <<products, orders, orders_details>>

txVars == <<tx, lock, uncommitted>>

ProductIds == {1, 2}

\* the rows of table products with stock q: ProductName, Price (in cents)
\* and Quantity
ProductRows(q) ==
    [p \in ProductIds |->
        [ProductName |-> IF p = 1 THEN "Gala" ELSE "Fuji",
         Price |-> IF p = 1 THEN 200 ELSE 150,
         Quantity |-> q[p]]]

Stock(tbl) == [p \in ProductIds |-> tbl[p].Quantity]

\* product names a caller may write in an order line
RequestNames == {"gala", "FUJI", "kiwi"}

\* SQL LOWER() on the names of the model
Lower(n) ==
    CASE n = "Gala" -> "gala"
      [] n = "Fuji" -> "fuji"
      [] n = "FUJI" -> "fuji"
      [] n = "Sweet" -> "sweet"
      [] n = "SWEET" -> "sweet"
      [] n = "Tart" -> "tart"
      [] OTHER -> n

\* products.Category of a product row
Category(p) == IF p = 1 THEN "Sweet" ELSE "Tart"

\* config["configurable"]["customer_id"] of main.py, and its absence
CustomerId == "3442 587242"

NoCustomer == ""

Customers == {CustomerId, NoCustomer}

\* One element of the products argument.  kind "ok": a dict with both keys
\* and an integer Quantity; "nokey": a dict without "ProductName";
\* "badqty": a Quantity that is no number (comparison raises TypeError).
Quantities == {0 - 1, 0, 1, 2, 3}

OrderLines ==
    [kind : {"ok"}, ProductName : RequestNames, Quantity : Quantities]
    \cup [kind : {"nokey"}, ProductName : {"kiwi"}, Quantity : {1}]
    \cup [kind : {"badqty"}, ProductName : {"gala", "kiwi"}, Quantity : {0}]

\* the argument lists of a single call: none, one or two lines
OrderArgs ==
    {<<>>} \cup {<<a>> : a \in OrderLines}
           \cup {<<a, b>> : a \in OrderLines, b \in OrderLines}

\* the lines of the calls of a sequence of orders
SeqLines ==
    {[kind |-> "ok", ProductName |-> "gala", Quantity |-> 1],
     [kind |-> "ok", ProductName |-> "gala", Quantity |-> 2],
     [kind |-> "ok", ProductName |-> "FUJI", Quantity |-> 1],
     [kind |-> "ok", ProductName |-> "FUJI", Quantity |-> 0 - 1],
     [kind |-> "ok", ProductName |-> "kiwi", Quantity |-> 1],
     [kind |-> "badqty", ProductName |-> "gala", Quantity |-> 0]}

SeqArgs ==
    {<<>>} \cup {<<a>> : a \in SeqLines}
           \cup {<<a, b>> : a \in SeqLines, b \in SeqLines}

Db == [products |-> products, orders |-> orders, orders_details |-> orders_details]

NoResult ==
    [status |-> "none", message |-> <<>>, order_id |-> 0, total_amount |-> 0,
     products |-> <<>>, customer_id |-> ""]

SelectProductExact(db, product_name) ==
    LET hits == {p \in ProductIds : db.products[p].ProductName = product_name}
    IN IF hits = {} THEN 0 ELSE CHOOSE p \in hits : \A q \in hits : p <= q

\* SELECT ProductId, Price, Quantity FROM products
\*   WHERE LOWER(ProductName) = LOWER(?)   -- fetchone(); 0 stands for None
SelectProduct(db, product_name) ==
    LET hits == {p \in ProductIds :
                    Lower(db.products[p].ProductName) = Lower(product_name)}
    IN IF hits = {} THEN 0 ELSE CHOOSE p \in hits : \A q \in hits : p <= q

InsertOrderAnonymous(db, customer_id) ==
    [db EXCEPT !.orders =
        Append(@, [OrderId |-> Len(@) + 1, CustomerId |-> NoCustomer,
                   Status |-> "Pending"])]

\* INSERT INTO orders (CustomerId, OrderDate, Status) VALUES (?, ?, 'Pending')
InsertOrder(db, customer_id) ==
    [db EXCEPT !.orders =
        Append(@, [OrderId |-> Len(@) + 1, CustomerId |-> customer_id,
                   Status |-> "Pending"])]

\* INSERT INTO orders_details (OrderId, ProductId, Quantity, UnitPrice)
InsertDetail(db, order_id, pid, quantity) ==
    [db EXCEPT !.orders_details =
        Append(@, [OrderId |-> order_id, ProductId |-> pid,
                   Quantity |-> quantity,
                   UnitPrice |-> db.products[pid].Price])]

UpdateInventoryNoStock(db, pid, quantity) == db

\* UPDATE products SET Quantity = Quantity - ? WHERE ProductId = ?
UpdateInventory(db, pid, quantity) ==
    [db EXCEPT !.products[pid].Quantity = @ - quantity]

LineFailureOffByOne(db, item) ==
    IF item.kind = "nokey" THEN <<"KeyError", "ProductName">>
    ELSE LET pid == SelectProduct(db, item.ProductName)
         IN  IF pid = 0 THEN <<"Product not found", item.ProductName>>
             ELSE IF item.kind = "badqty" THEN <<"TypeError", item.ProductName>>
             ELSE IF db.products[pid].Quantity <= item.Quantity
                  THEN <<"Insufficient stock", item.ProductName>>
             ELSE <<>>

\* The exception one pass of the loop "for item in products" raises on the
\* open transaction db, <<>> when it raises none.
LineFailure(db, item) ==
    IF item.kind = "nokey" THEN <<"KeyError", "ProductName">>
    ELSE LET pid == SelectProduct(db, item.ProductName)
         IN  IF pid = 0 THEN <<"Product not found", item.ProductName>>
             ELSE IF item.kind = "badqty" THEN <<"TypeError", item.ProductName>>
             ELSE IF db.products[pid].Quantity < item.Quantity
                  THEN <<"Insufficient stock", item.ProductName>>
             ELSE <<>>

\* the entry of ordered_products for item
OrderedProduct(db, item) ==
    [name |-> item.ProductName, quantity |-> item.Quantity,
     unit_price |-> db.products[SelectProduct(db, item.ProductName)].Price]

LineAmountPriceOnly(db, item) ==
    db.products[SelectProduct(db, item.ProductName)].Price

\* total_amount += Decimal(str(Price)) * Decimal(str(quantity)), in cents
LineAmount(db, item) ==
    db.products[SelectProduct(db, item.ProductName)].Price * item.Quantity

RECURSIVE ProcessItems(_, _, _, _, _, _)
\* the loop of create_order from item i on; work is the uncommitted state
ProcessItems(work, order_id, items, i, total_amount, ordered_products) ==
    IF i > Len(items)
    THEN [raised |-> <<>>, db |-> work, total_amount |-> total_amount,
          products |-> ordered_products]
    ELSE LET item == items[i]
             err == LineFailure(work, item)
         IN  IF err # <<>>
             THEN [raised |-> err, db |-> work, total_amount |-> total_amount,
                   products |-> ordered_products]
             ELSE LET pid == SelectProduct(work, item.ProductName)
                      w1 == InsertDetail(work, order_id, pid, item.Quantity)
                      w2 == UpdateInventory(w1, pid, item.Quantity)
                  IN  ProcessItems(w2, order_id, items, i + 1,
                          total_amount + LineAmount(work, item),
                          Append(ordered_products, OrderedProduct(work, item)))

RollbackKeepsWork(before, work) == work

\* except Exception: cursor.execute("ROLLBACK"): the tables are those
\* before BEGIN TRANSACTION
Rollback(before, work) == before

\* the value create_order returns when no customer id is configured
NoCustomerResult ==
    [NoResult EXCEPT !.status = "ValueError",
                     !.message = <<"No customer ID configured.">>]

\* the dict returned from the except branch
ErrorResult(e, customer_id) ==
    [NoResult EXCEPT !.status = "error", !.message = e,
                     !.customer_id = customer_id]

\* the dict returned after COMMIT
SuccessResult(order_id, total_amount, ordered_products, customer_id) ==
    [status |-> "success", message |-> <<"Order created successfully">>,
     order_id |-> order_id, total_amount |-> total_amount,
     products |-> ordered_products, customer_id |-> customer_id]

\* create_order(products, config): the whole call on tables db
create_order(db, customer_id, items) ==
    IF customer_id = NoCustomer
    THEN [db |-> db, result |-> NoCustomerResult]
    ELSE LET w0 == InsertOrder(db, customer_id)
             order_id == Len(w0.orders)
             loop == ProcessItems(w0, order_id, items, 1, 0, <<>>)
         IN  IF loop.raised # <<>>
             THEN [db |-> Rollback(db, loop.db),
                   result |-> ErrorResult(loop.raised, customer_id)]
             ELSE [db |-> loop.db,
                   result |-> SuccessResult(order_id, loop.total_amount,
                                            loop.products, customer_id)]

NoCall ==
    [state |-> "none", pre |-> <<>>, customer |-> "", items |-> <<>>,
     result |-> NoResult]

TxIds == {1, 2}

NoTx ==
    [pc |-> "none", customer |-> "", items |-> <<>>, i |-> 0, order_id |-> 0,
     total_amount |-> 0, ordered_products |-> <<>>, inTx |-> FALSE,
     raised |-> <<>>, result |-> NoResult]

NoWork == [products |-> <<>>, orders |-> <<>>, orders_details |-> <<>>]

TxIdle == tx = [t \in TxIds |-> NoTx] /\ lock = 0 /\ uncommitted = NoWork

(***************************************************************************)
(* The conversation engine: graph.py (nodes assistant, safe_tools,         *)
(* sensitive_tools; route_tools; interrupt before sensitive_tools; the     *)
(* MemorySaver checkpointer) and the Streamlit script main.py.             *)
(***************************************************************************)
Sessions == {"s1", "s2"}

\* the browser sessions that act in specification Spec
ActiveSessions == {"s1"}

\* the thread identifiers a session draws, in the order it draws them
ThreadIds == {1, 2}

\* tool names of the model: two tools of safe_tools, one of sensitive_tools
safe_tools == {"search_products", "check_order_status"}

sensitive_tools == {"create_order"}

sensitive_tool_names == sensitive_tools

InterruptNowhere == {}

InterruptEveryTool == {"safe_tools", "sensitive_tools"}

\* builder.compile(checkpointer=memory, interrupt_before=["sensitive_tools"])
interrupt_before == {"sensitive_tools"}

END == "__end__"

HumanMessage(id) ==
    [role |-> "human", id |-> id, content |-> <<"prompt">>,
     tool_calls |-> <<>>, tool_call_id |-> 0, result |-> NoResult]

AIMessage(id, content, tool_calls) ==
    [role |-> "ai", id |-> id, content |-> content,
     tool_calls |-> tool_calls, tool_call_id |-> 0, result |-> NoResult]

ToolMessage(id, tool_call_id, content, result) ==
    [role |-> "tool", id |-> id, content |-> content,
     tool_calls |-> <<>>, tool_call_id |-> tool_call_id, result |-> result]

\* the k-th tool-call request of the assistant message with identifier id
ToolCall(id, k, name, args) == [id |-> 10 * id + k, name |-> name, args |-> args]

\* the thread of a thread identifier nothing has run on
EmptyThread == [messages |-> <<>>, next |-> ""]

\* initialize_session_state(): st.session_state of a new session, with the
\* k-th thread identifier the session has drawn
initialize_session_state(k) ==
    [messages |-> <<>>, thread_id |-> k, pending_approval |-> <<>>,
     customer_id |-> CustomerId, error |-> "", deny_reason_input |-> FALSE]

NoRun == [handler |-> "idle", events |-> <<>>, reprompts |-> 0]

NoEvent == [event |-> "none", memory |-> EmptyThread, pending |-> <<>>,
            reason |-> "", log |-> 0, stock |-> [p \in ProductIds |-> 0]]

UiIdle ==
    /\ memory = [s \in Sessions |-> EmptyThread]
    /\ session = [s \in Sessions |-> initialize_session_state(1)]
    /\ run = [s \in Sessions |-> NoRun]
    /\ handlerLog = <<>>
    /\ approvals = {}
    /\ lastEvent = [s \in Sessions |-> NoEvent]

uiVars == <<memory, session, run, handlerLog, approvals, lastEvent>>

vars ==
    <<products, orders, orders_details, initStock, lastCall, tx, lock,
      uncommitted, memory, session, run, handlerLog, approvals, lastEvent>>

RECURSIVE IndexOfId(_, _, _)
\* the position from i on of the message of msgs with identifier id, else 0
IndexOfId(msgs, id, i) ==
    IF i > Len(msgs) THEN 0
    ELSE IF msgs[i].id = id THEN i
    ELSE IndexOfId(msgs, id, i + 1)

add_messages_concat(left, right) == left \o right

RECURSIVE add_messages(_, _)
\* the reducer of State.messages: a message of right whose identifier is in
\* left replaces that message in place, any other is appended
add_messages(left, right) ==
    IF right = <<>> THEN left
    ELSE LET m == Head(right)
             at == IndexOfId(left, m.id, 1)
         IN  add_messages(IF at = 0 THEN Append(left, m)
                          ELSE [left EXCEPT ![at] = m],
                          Tail(right))

Last(msgs) == msgs[Len(msgs)]

\* langgraph.prebuilt.tools_condition on the last message
tools_condition(messages) ==
    IF Last(messages).role = "ai" /\ Last(messages).tool_calls # <<>>
    THEN "tools" ELSE END

route_tools_all_safe(messages) ==
    IF tools_condition(messages) = END THEN END ELSE "safe_tools"

route_tools_last_call(messages) ==
    IF tools_condition(messages) = END THEN END
    ELSE LET ai_message == Last(messages)
             last_tool_call == ai_message.tool_calls[Len(ai_message.tool_calls)]
         IN  IF last_tool_call.name \in sensitive_tool_names
             THEN "sensitive_tools" ELSE "safe_tools"

route_tools(messages) ==
    IF tools_condition(messages) = END THEN END
    ELSE LET ai_message == Last(messages)
             first_tool_call == ai_message.tool_calls[1]
         IN  IF first_tool_call.name \in sensitive_tool_names
             THEN "sensitive_tools" ELSE "safe_tools"

\* the filters of a search_products call; "" and NoPrice stand for None
NoPrice == 0 - 1

NoFilters ==
    [query |-> "", category |-> "", min_price |-> NoPrice, max_price |-> NoPrice]

SearchFilters ==
    [query : {"", "gala", "kiwi"}, category : {"", "SWEET", "Citrus"},
     min_price : {NoPrice, 200}, max_price : {NoPrice, 150}]

\* the product ids in rowid order
ProductSeq == [p \in 1..Cardinality(ProductIds) |-> p]

\* the row of product p in a search result
ProductRow(db, p) ==
    [product_id |-> p, name |-> db.products[p].ProductName,
     category |-> Category(p), quantity |-> db.products[p].Quantity,
     unit_price |-> db.products[p].Price]

\* the WHERE clause search_products builds from its arguments (a query
\* term is one whole product name)
SearchMatch(db, a, p) ==
    /\ a.query # "" => Lower(db.products[p].ProductName) = Lower(a.query)
    /\ a.category # "" => Lower(Category(p)) = Lower(a.category)
    /\ a.min_price # NoPrice => db.products[p].Price >= a.min_price
    /\ a.max_price # NoPrice => db.products[p].Price <= a.max_price

search_products_args_any_stock(db, a) ==
    LET priced == {p \in ProductIds : db.products[p].Quantity > 0}
        Hit(p) == SearchMatch(db, a, p)
    IN  IF priced = {}
        THEN [NoResult EXCEPT
                !.status = "TypeError",
                !.message = <<"float() argument must be a string or a real number, not 'NoneType'">>]
        ELSE [NoResult EXCEPT
                !.status = "success",
                !.products = [k \in 1..Len(SelectSeq(ProductSeq, Hit)) |->
                                ProductRow(db, SelectSeq(ProductSeq, Hit)[k])]]

\* search_products(query, category, min_price, max_price): the rows of
\* SELECT * FROM products WHERE Quantity > 0 AND <filters>.  The metadata's
\* price range is float(MIN(Price)) over the products in stock: MIN over no
\* row is NULL and float(None) raises TypeError.
search_products_args(db, a) ==
    LET priced == {p \in ProductIds : db.products[p].Quantity > 0}
        Hit(p) == db.products[p].Quantity > 0 /\ SearchMatch(db, a, p)
    IN  IF priced = {}
        THEN [NoResult EXCEPT
                !.status = "TypeError",
                !.message = <<"float() argument must be a string or a real number, not 'NoneType'">>]
        ELSE [NoResult EXCEPT
                !.status = "success",
                !.products = [k \in 1..Len(SelectSeq(ProductSeq, Hit)) |->
                                ProductRow(db, SelectSeq(ProductSeq, Hit)[k])]]

\* search_products(): no filter
search_products(db) == search_products_args(db, NoFilters)

\* get_available_categories(): SELECT DISTINCT Category ... WHERE Quantity > 0
get_available_categories(db) ==
    [categories |-> {Category(p) : p \in {q \in ProductIds :
                                            db.products[q].Quantity > 0}}]

\* search_products_recommendations(config): the categories of the
\* customer's earlier orders, then the products in stock of those
\* categories, or every product in stock when there is no earlier order.
\* ORDER BY RANDOM() LIMIT 5 leaves the order open: the rows are a set.
search_products_recommendations(db, customer_id) ==
    IF customer_id = "" 
    THEN [status |-> "ValueError", message |-> <<"No customer ID configured.">>]
    ELSE LET favorite_categories ==
                {Category(db.orders_details[j].ProductId) :
                    j \in {h \in 1..Len(db.orders_details) :
                             \E k \in 1..Len(db.orders) :
                                /\ db.orders[k].OrderId = db.orders_details[h].OrderId
                                /\ db.orders[k].CustomerId = customer_id}}
             recommendations ==
                {p \in ProductIds :
                    /\ db.products[p].Quantity > 0
                    /\ favorite_categories # {} =>
                          Category(p) \in favorite_categories}
         IN  [status |-> "success", customer_id |-> customer_id,
              recommendations |-> {ProductRow(db, p) : p \in recommendations}]

\* check_order_status(None): the number of the customer's orders with lines
check_order_status(db, customer_id) ==
    [NoResult EXCEPT
       !.status = "success",
       !.customer_id = customer_id,
       !.order_id =
          Cardinality({k \in 1..Len(db.orders) :
             /\ db.orders[k].CustomerId = customer_id
             /\ \E j \in 1..Len(db.orders_details) :
                   db.orders_details[j].OrderId = db.orders[k].OrderId})]

invoke_tool_dry_run(db, call, customer_id) ==
    [db |-> db,
     result |-> IF call.name = "create_order"
                THEN create_order(db, customer_id, call.args).result
                ELSE search_products(db)]

\* the handler of a registered tool: the tables after the call, its result
invoke_tool(db, call, customer_id) ==
    CASE call.name = "create_order" -> create_order(db, customer_id, call.args)
      [] call.name = "search_products" ->
            [db |-> db, result |-> search_products(db)]
      [] OTHER -> [db |-> db, result |-> check_order_status(db, customer_id)]

\* The node create_tool_node_with_fallback(tools) builds, run on a thread
\* whose last message is an assistant message with tool calls: it takes the
\* first call only, runs its handler when the tool is one of the node's
\* tools, and answers the call with one tool-result message that carries
\* the result or the failure.
tool_node(tools, db, messages, customer_id) ==
    LET call == Last(messages).tool_calls[1]
        registered == call.name \in tools
        out == IF registered THEN invoke_tool(db, call, customer_id)
               ELSE [db |-> db,
                     result |-> [NoResult EXCEPT !.status = "error",
                                    !.message = <<"not a valid tool", call.name>>]]
    IN  [db |-> out.db,
         ran |-> IF registered THEN <<call>> ELSE <<>>,
         message |-> ToolMessage(Len(messages) + 1, call.id, <<"result">>,
                                 out.result)]

RECURSIVE process_events(_, _, _, _)
\* process_events(events) from event i on: the messages it appends to
\* st.session_state.messages and the tool call it returns (<<>>: None)
process_events(events, i, seen_ids, appended) ==
    IF i > Len(events) THEN [appended |-> appended, tool_call |-> <<>>]
    ELSE LET last_message == events[i]
             shown == /\ last_message.role = "ai"
                      /\ last_message.id \notin seen_ids
                      /\ last_message.content # <<>>
             seen == IF shown THEN seen_ids \cup {last_message.id} ELSE seen_ids
             app == IF shown THEN Append(appended, last_message) ELSE appended
         IN  IF last_message.role = "ai" /\ last_message.tool_calls # <<>>
             THEN [appended |-> app, tool_call |-> <<last_message.tool_calls[1]>>]
             ELSE process_events(events, i + 1, seen, app)

get_state_lagging(thread) ==
    [values |-> SubSeq(thread.messages, 1, Len(thread.messages) - 1),
     next |-> ""]

\* graph.get_state(config): the thread's values and the node it waits for
get_state(thread) == [values |-> thread.messages, next |-> thread.next]

\* the tool call handle_tool_approval shows for a pending approval
\* (<<>>: the last message of the snapshot has none)
ProposedAction(pending_approval) ==
    LET last_message == Last(pending_approval[1].values)
    IN  IF last_message.role = "ai" /\ last_message.tool_calls # <<>>
        THEN <<last_message.tool_calls[1]>> ELSE <<>>

ThreadId(s) == <<s, session[s].thread_id>>

\* The end of the script run of session s whose graph call has returned
\* (raised = FALSE: at END or at an interrupt) or raised; thread is the
\* checkpoint it leaves and events the streamed values.
\* main(), lines 214-224; handle_tool_approval, lines 147-151 and 170-174.
Return(s, thread, events, raised) ==
    LET h == run[s].handler
        ss == session[s]
    IN  /\ run' = [run EXCEPT ![s] = NoRun]
        /\ IF raised
           THEN session' = [session EXCEPT ![s].error =
                   CASE h = "stream" -> "Error processing message"
                     [] h = "approve" -> "Error processing approval"
                     [] OTHER -> "Error processing denial"]
           ELSE IF h = "stream"
           THEN LET pe == process_events(events, 1, {}, <<>>)
                    snapshot == get_state(thread)
                IN  session' = [session EXCEPT
                       ![s].messages = @ \o pe.appended,
                       ![s].pending_approval =
                          IF pe.tool_call # <<>> /\ snapshot.next # ""
                          THEN <<snapshot>> ELSE @]
           ELSE LET pe == process_events(<<Last(thread.messages)>>, 1, {}, <<>>)
                IN  session' = [session EXCEPT
                       ![s].messages = @ \o pe.appended,
                       ![s].pending_approval = <<>>]

\* what the user did to start the script run, and the state it found
Record(s, event, reason) ==
    lastEvent' = [lastEvent EXCEPT ![s] =
        [event |-> event, memory |-> memory[s],
         pending |-> session[s].pending_approval, reason |-> reason,
         log |-> Len(handlerLog), stock |-> Stock(products)]]

Idle(s) == run[s].handler = "idle"

\* The user submits a prompt (st.chat_input): main(), lines 198-212.  The
\* script appends the HumanMessage and calls graph.stream with the whole
\* message list; the input is merged into the thread and the run starts at
\* START -> assistant, whatever node the thread was waiting for.
ChatInput(s) ==
    /\ Idle(s)
    /\ Len(memory[s].messages) < MaxMsgs
    /\ LET human_message == HumanMessage(Len(memory[s].messages) + 1)
           ui == Append(session[s].messages, human_message)
           merged == add_messages(memory[s].messages, ui)
       IN  /\ session' = [session EXCEPT ![s].messages = ui, ![s].error = "",
                                         ![s].deny_reason_input = FALSE]
           /\ memory' = [memory EXCEPT ![s] =
                            [messages |-> merged, next |-> "assistant"]]
           /\ run' = [run EXCEPT ![s] =
                        [handler |-> "stream", events |-> <<Last(merged)>>,
                         reprompts |-> 0]]
    /\ Record(s, "chat", "")
    /\ UNCHANGED <<storeVars, initStock, lastCall, txVars, handlerLog, approvals>>

\* the argument lists the planner asks create_order for
PlannerOrders ==
    {<<[kind |-> "ok", ProductName |-> "gala", Quantity |-> 1]>>,
     <<[kind |-> "ok", ProductName |-> "gala", Quantity |-> 1],
       [kind |-> "ok", ProductName |-> "kiwi", Quantity |-> 1]>>}

\* the tool-call requests of one planner message with identifier id; the
\* planner may also name a tool that is in neither list ("cancel_order")
PlannerCalls(id) ==
    LET S(k) == ToolCall(id, k, "search_products", <<>>)
        O(k, a) == ToolCall(id, k, "create_order", a)
        U(k) == ToolCall(id, k, "cancel_order", <<>>)
    IN  {<<S(1)>>, <<U(1)>>}
        \cup {<<O(1, a)>> : a \in PlannerOrders}
        \cup {<<S(1), O(2, a)>> : a \in PlannerOrders}
        \cup {<<O(1, a), S(2)>> : a \in PlannerOrders}

\* the messages self.runnable.invoke(state) may return on the thread:
\* an answer, or tool calls with or without text
PlannerMessages(messages) ==
    LET id == Len(messages) + 1
    IN  {AIMessage(id, <<"answer">>, <<>>)}
        \cup (IF Len(messages) + 2 <= MaxMsgs
              THEN {AIMessage(id, <<>>, calls) : calls \in PlannerCalls(id)}
                   \cup {AIMessage(id, <<"text">>, <<c>>) :
                            c \in {ToolCall(id, 1, "create_order", a) :
                                     a \in PlannerOrders}}
              ELSE {})

\* Node assistant, one call of the planner in Assistant.__call__ with its
\* outcome: the planner raises; it returns an empty message and is prompted
\* again; or it returns the message the node adds to the thread, after
\* which route_tools chooses the next node and the run goes on, ends, or is
\* interrupted before a node of interrupt_before.
AssistantRaises(s) ==
    /\ ~Idle(s)
    /\ memory[s].next = "assistant"
    /\ Return(s, memory[s], run[s].events, TRUE)
    /\ UNCHANGED <<storeVars, initStock, lastCall, txVars, memory, handlerLog,
                   approvals, lastEvent>>

AssistantRepromptPersisted(s) ==
    /\ ~Idle(s)
    /\ memory[s].next = "assistant"
    /\ run[s].reprompts < MaxReprompts
    /\ run' = [run EXCEPT ![s].reprompts = @ + 1]
    /\ memory' = [memory EXCEPT ![s].messages =
          Append(@, [HumanMessage(Len(@) + 1) EXCEPT
                       !.content = <<"Respond with a real output.">>])]
    /\ UNCHANGED <<storeVars, initStock, lastCall, txVars, session,
                   handlerLog, approvals, lastEvent>>

\* the planner's result has no tool call and no content: the loop appends
\* ("user", "Respond with a real output.") to its local state and calls the
\* planner again, any number of times (MaxReprompts caps the model)
AssistantReprompt(s) ==
    /\ ~Idle(s)
    /\ memory[s].next = "assistant"
    /\ run[s].reprompts < MaxReprompts
    /\ run' = [run EXCEPT ![s].reprompts = @ + 1]
    /\ UNCHANGED <<storeVars, initStock, lastCall, txVars, memory, session,
                   handlerLog, approvals, lastEvent>>

AssistantStep(s) ==
    /\ ~Idle(s)
    /\ memory[s].next = "assistant"
    /\ \E result \in PlannerMessages(memory[s].messages) :
         LET messages == add_messages(memory[s].messages, <<result>>)
             next_node == route_tools(messages)
             thread == [messages |-> messages,
                        next |-> IF next_node = END THEN "" ELSE next_node]
             events == Append(run[s].events, result)
         IN  /\ memory' = [memory EXCEPT ![s] = thread]
             /\ IF next_node = END \/ next_node \in interrupt_before
                THEN Return(s, thread, events, FALSE)
                ELSE /\ run' = [run EXCEPT ![s].events = events,
                                           ![s].reprompts = 0]
                     /\ UNCHANGED session
    /\ UNCHANGED <<storeVars, initStock, lastCall, txVars, handlerLog,
                   approvals, lastEvent>>

\* Nodes safe_tools and sensitive_tools: the tool node runs, its message is
\* added to the thread and the edge leads back to assistant.
ToolStep(s) ==
    /\ ~Idle(s)
    /\ memory[s].next \in {"safe_tools", "sensitive_tools"}
    /\ LET tools == IF memory[s].next = "safe_tools" THEN safe_tools
                    ELSE sensitive_tools
           out == tool_node(tools, Db, memory[s].messages, session[s].customer_id)
           messages == add_messages(memory[s].messages, <<out.message>>)
       IN  /\ products' = out.db.products
           /\ orders' = out.db.orders
           /\ orders_details' = out.db.orders_details
           /\ memory' = [memory EXCEPT ![s] =
                            [messages |-> messages, next |-> "assistant"]]
           /\ run' = [run EXCEPT ![s].events = Append(@, out.message)]
           /\ handlerLog' =
                 IF out.ran = <<>> THEN handlerLog
                 ELSE Append(handlerLog,
                        [thread |-> ThreadId(s), id |-> out.ran[1].id,
                         name |-> out.ran[1].name])
    /\ UNCHANGED <<initStock, lastCall, txVars, session, approvals, lastEvent>>

\* The user clicks Approve (the button exists while pending_approval is
\* set): handle_tool_approval, lines 142-151.  graph.invoke(None, config)
\* resumes the thread at the node it waits for; on a thread that waits for
\* no node it returns the thread's values at once.
ClickApprove(s) ==
    /\ Idle(s)
    /\ session[s].pending_approval # <<>>
    /\ approvals' = approvals \cup
          {[thread |-> ThreadId(s), id |-> c.id] :
              c \in {ProposedAction(session[s].pending_approval)[k] :
                       k \in 1..Len(ProposedAction(session[s].pending_approval))}}
    /\ Record(s, "approve", "")
    /\ IF memory[s].next = ""
       THEN LET pe == process_events(<<Last(memory[s].messages)>>, 1, {}, <<>>)
            IN  /\ session' = [session EXCEPT
                      ![s].messages = @ \o pe.appended,
                      ![s].pending_approval = <<>>,
                      ![s].error = "",
                      ![s].deny_reason_input = FALSE]
                /\ UNCHANGED run
       ELSE /\ run' = [run EXCEPT ![s] =
                         [handler |-> "approve", events |-> <<>>,
                          reprompts |-> 0]]
            /\ session' = [session EXCEPT ![s].error = "",
                                          ![s].deny_reason_input = FALSE]
    /\ UNCHANGED <<storeVars, initStock, lastCall, txVars, memory, handlerLog>>

DenyBranchResumes(s, deny, reason, submit) ==
    IF deny
    THEN /\ run' = [run EXCEPT ![s] =
               [handler |-> "deny", events |-> <<>>, reprompts |-> 0]]
         /\ session' = [session EXCEPT ![s].error = "",
                                       ![s].deny_reason_input = FALSE]
         /\ UNCHANGED memory
    ELSE /\ session' = [session EXCEPT ![s].error = "",
                                       ![s].deny_reason_input = deny]
         /\ UNCHANGED <<memory, run>>

\* The body of "if st.button('Deny')" in handle_tool_approval, lines
\* 154-174, in a script run where the Deny button returns deny, the text
\* input returns reason and the Submit button returns submit.
DenyBranch(s, deny, reason, submit) ==
    IF deny /\ reason # "" /\ submit
    THEN LET last_message == Last(session[s].pending_approval[1].values)
             denial == ToolMessage(Len(memory[s].messages) + 1,
                          last_message.tool_calls[1].id,
                          <<"API call denied by user", reason>>, NoResult)
         IN  /\ memory' = [memory EXCEPT ![s] =
                   [messages |-> add_messages(memory[s].messages, <<denial>>),
                    next |-> "assistant"]]
             /\ run' = [run EXCEPT ![s] =
                   [handler |-> "deny", events |-> <<>>, reprompts |-> 0]]
             /\ session' = [session EXCEPT ![s].error = "",
                                           ![s].deny_reason_input = FALSE]
    ELSE /\ session' = [session EXCEPT ![s].error = "",
                                       ![s].deny_reason_input = deny]
         /\ UNCHANGED <<memory, run>>

\* The user clicks Deny.  In the script run the click starts, st.button
\* ("Deny") returns True, the text input is drawn for the first time and
\* returns "", so the Submit button is not reached.
ClickDeny(s) ==
    /\ Idle(s)
    /\ session[s].pending_approval # <<>>
    /\ DenyBranch(s, TRUE, "", FALSE)
    /\ Record(s, "deny", "")
    /\ UNCHANGED <<storeVars, initStock, lastCall, txVars, handlerLog, approvals>>

Reasons == {"wrong product"}

\* The user types the reason into the text input the Deny click has drawn.
\* The change starts a script run in which st.button("Deny") returns False
\* (a button is True only in the run its click starts), so the body of the
\* Deny branch is skipped and the text input is not drawn again.
EnterReason(s) ==
    /\ Idle(s)
    /\ session[s].pending_approval # <<>>
    /\ session[s].deny_reason_input
    /\ \E reason \in Reasons :
         /\ DenyBranch(s, FALSE, reason, FALSE)
         /\ Record(s, "reason", reason)
    /\ UNCHANGED <<storeVars, initStock, lastCall, txVars, handlerLog, approvals>>

StartNewChatKeepsState(s) ==
    /\ Idle(s)
    /\ session[s].thread_id + 1 \in ThreadIds
    /\ session' = [session EXCEPT ![s].thread_id = @ + 1]
    /\ Record(s, "new_chat", "")
    /\ UNCHANGED <<storeVars, initStock, lastCall, txVars, memory, run,
                   handlerLog, approvals>>

StartNewChatEverywhere(s) ==
    /\ Idle(s)
    /\ session[s].thread_id + 1 \in ThreadIds
    /\ session' = [t \in Sessions |->
                     initialize_session_state(session[s].thread_id + 1)]
    /\ memory' = [t \in Sessions |-> EmptyThread]
    /\ Record(s, "new_chat", "")
    /\ UNCHANGED <<storeVars, initStock, lastCall, txVars, run, handlerLog,
                   approvals>>

\* Start New Chat: setup_sidebar, lines 64-67, deletes every key of
\* st.session_state; initialize_session_state draws a new thread identifier.
StartNewChat(s) ==
    /\ Idle(s)
    /\ session[s].thread_id + 1 \in ThreadIds
    /\ session' = [session EXCEPT ![s] = initialize_session_state(@.thread_id + 1)]
    /\ memory' = [memory EXCEPT ![s] = EmptyThread]
    /\ Record(s, "new_chat", "")
    /\ UNCHANGED <<storeVars, initStock, lastCall, txVars, run, handlerLog,
                   approvals>>

Init ==
    /\ TxIdle
    /\ UiIdle
    /\ products = ProductRows([p \in ProductIds |-> IF p = 1 THEN 1 ELSE MaxStock])
    /\ orders = <<>>
    /\ orders_details = <<>>
    /\ initStock = Stock(products)
    /\ lastCall = NoCall

Next ==
    \E s \in ActiveSessions :
       \/ ChatInput(s)
       \/ AssistantRaises(s)
       \/ AssistantReprompt(s)
       \/ AssistantStep(s)
       \/ ToolStep(s)
       \/ ClickApprove(s)
       \/ ClickDeny(s)
       \/ EnterReason(s)
       \/ StartNewChat(s)

Spec == Init /\ [][Next]_vars

(***************************************************************************)
(* Specification SpecThreads: every browser session acts, each on its own  *)
(* thread, their script runs interleaved node by node, as long as the      *)
(* threads together hold fewer than MaxSharedMsgs messages.                *)
(***************************************************************************)
\* the number of messages the current threads of all sessions hold
SharedMsgs == Len(memory["s1"].messages) + Len(memory["s2"].messages)

NextThreads ==
    \E s \in Sessions :
       \/ SharedMsgs < MaxSharedMsgs /\ ChatInput(s)
       \/ SharedMsgs < MaxSharedMsgs /\ AssistantRaises(s)
       \/ SharedMsgs < MaxSharedMsgs /\ AssistantReprompt(s)
       \/ SharedMsgs < MaxSharedMsgs /\ AssistantStep(s)
       \/ SharedMsgs < MaxSharedMsgs /\ ToolStep(s)
       \/ SharedMsgs < MaxSharedMsgs /\ ClickApprove(s)
       \/ SharedMsgs < MaxSharedMsgs /\ ClickDeny(s)
       \/ SharedMsgs < MaxSharedMsgs /\ EnterReason(s)
       \/ SharedMsgs < MaxSharedMsgs /\ StartNewChat(s)

SpecThreads == Init /\ [][NextThreads]_vars

(***************************************************************************)
(* Specification SpecCall: one create_order call.  Init draws the store    *)
(* (stock in 0..MaxStock, with or without an earlier committed order), the *)
(* customer and the argument list; ApplyCreateOrder runs the call.         *)
(***************************************************************************)
\* an order committed earlier: one Gala for the customer
EarlierOrders ==
    {<<>>, <<[OrderId |-> 1, CustomerId |-> CustomerId, Status |-> "Pending"]>>}

EarlierDetails(o) ==
    IF o = <<>> THEN <<>>
    ELSE <<[OrderId |-> 1, ProductId |-> 1, Quantity |-> 1, UnitPrice |-> 200]>>

InitCall ==
    /\ TxIdle
    /\ UiIdle
    /\ \E q \in [ProductIds -> 0..MaxStock] : products = ProductRows(q)
    /\ orders \in EarlierOrders
    /\ orders_details = EarlierDetails(orders)
    /\ initStock = [p \in ProductIds |->
                      products[p].Quantity + (IF p = 1 THEN Len(orders) ELSE 0)]
    /\ \E customer_id \in Customers, items \in OrderArgs :
          lastCall = [NoCall EXCEPT !.state = "ready", !.customer = customer_id,
                                    !.items = items]

ApplyCreateOrder ==
    /\ lastCall.state = "ready"
    /\ LET out == create_order(Db, lastCall.customer, lastCall.items)
       IN  /\ products' = out.db.products
           /\ orders' = out.db.orders
           /\ orders_details' = out.db.orders_details
           /\ lastCall' = [lastCall EXCEPT !.state = "done", !.pre = <<Db>>,
                                           !.result = out.result]
    /\ UNCHANGED <<initStock, txVars, uiVars>>

orderVars == vars

NextCall == ApplyCreateOrder

SpecCall == InitCall /\ [][NextCall]_orderVars

(***************************************************************************)
(* Specification SpecOrder: sequences of create_order calls, one after the *)
(* other, on a store whose initial stock is drawn from 0..MaxStock.        *)
(***************************************************************************)
InitOrder ==
    /\ TxIdle
    /\ UiIdle
    /\ \E q \in [ProductIds -> 0..MaxStock] : products = ProductRows(q)
    /\ orders = <<>>
    /\ orders_details = <<>>
    /\ initStock = Stock(products)
    /\ lastCall = NoCall

CallCreateOrder ==
    /\ Len(orders) < MaxOrders
    /\ \E customer_id \in Customers, items \in SeqArgs :
         LET out == create_order(Db, customer_id, items)
         IN  /\ products' = out.db.products
             /\ orders' = out.db.orders
             /\ orders_details' = out.db.orders_details
    /\ UNCHANGED <<initStock, lastCall, txVars, uiVars>>

NextOrder == CallCreateOrder

SpecOrder == InitOrder /\ [][NextOrder]_orderVars

(***************************************************************************)
(* Specification SpecTx: two create_order calls running concurrently, each *)
(* on its own connection, one SQL statement per step.                      *)
(***************************************************************************)
\* the argument lists of the concurrent calls
TxArgs ==
    {<<[kind |-> "ok", ProductName |-> "gala", Quantity |-> 1]>>,
     <<[kind |-> "ok", ProductName |-> "Gala", Quantity |-> 1]>>,
     <<[kind |-> "ok", ProductName |-> "FUJI", Quantity |-> 1],
       [kind |-> "ok", ProductName |-> "gala", Quantity |-> 1]>>,
     <<[kind |-> "ok", ProductName |-> "gala", Quantity |-> 2]>>,
     <<[kind |-> "ok", ProductName |-> "gala", Quantity |-> 1],
       [kind |-> "ok", ProductName |-> "kiwi", Quantity |-> 1]>>}

InitTx ==
    /\ \E q \in [ProductIds -> 0..MaxStock] : products = ProductRows(q)
    /\ orders = <<>>
    /\ orders_details = <<>>
    /\ initStock = Stock(products)
    /\ lastCall = NoCall
    /\ lock = 0
    /\ uncommitted = NoWork
    /\ UiIdle
    /\ \E a \in [TxIds -> TxArgs] :
          tx = [t \in TxIds |->
                  [NoTx EXCEPT !.pc = "begin", !.customer = CustomerId,
                               !.items = a[t], !.i = 1]]

\* A connection may write when no other connection holds the write lock;
\* a writer that finds the lock taken waits for it.
CanWrite(t) == lock \in {0, t}

\* the tables connection t reads: its own uncommitted ones inside its
\* transaction, the committed ones otherwise
View(t) == IF lock = t THEN uncommitted ELSE Db

\* connection t executes a writing statement whose outcome is new: inside a
\* transaction the write stays uncommitted and the lock is kept until COMMIT
\* or ROLLBACK, outside one it is committed at once
Write(t, new) ==
    IF tx[t].inTx
    THEN /\ uncommitted' = new
         /\ lock' = t
         /\ UNCHANGED storeVars
    ELSE /\ products' = new.products
         /\ orders' = new.orders
         /\ orders_details' = new.orders_details
         /\ uncommitted' = NoWork
         /\ lock' = 0

TxBeginNoTransaction(t) ==
    /\ tx[t].pc = "begin"
    /\ tx' = [tx EXCEPT ![t].pc = "insert_order", ![t].inTx = FALSE]
    /\ UNCHANGED <<storeVars, initStock, lastCall, lock, uncommitted, uiVars>>

\* cursor.execute("BEGIN TRANSACTION")
TxBegin(t) ==
    /\ tx[t].pc = "begin"
    /\ tx' = [tx EXCEPT ![t].pc = "insert_order", ![t].inTx = TRUE]
    /\ UNCHANGED <<storeVars, initStock, lastCall, lock, uncommitted, uiVars>>

\* INSERT INTO orders ...; order_id = cursor.lastrowid
TxInsertOrder(t) ==
    /\ tx[t].pc = "insert_order"
    /\ CanWrite(t)
    /\ LET new == InsertOrder(View(t), tx[t].customer)
       IN  /\ Write(t, new)
           /\ tx' = [tx EXCEPT ![t].order_id = Len(new.orders),
                               ![t].pc = IF tx[t].items = <<>> THEN "commit"
                                         ELSE "select"]
    /\ UNCHANGED <<initStock, lastCall, uiVars>>

\* one pass of the loop up to the two raise statements: the SELECT and the
\* checks of its row
TxSelect(t) ==
    /\ tx[t].pc = "select"
    /\ LET err == LineFailure(View(t), tx[t].items[tx[t].i])
       IN  tx' = [tx EXCEPT ![t].raised = err,
                            ![t].pc = IF err = <<>> THEN "insert_detail"
                                      ELSE "rollback"]
    /\ UNCHANGED <<storeVars, initStock, lastCall, lock, uncommitted, uiVars>>

\* INSERT INTO orders_details ...
TxInsertDetail(t) ==
    /\ tx[t].pc = "insert_detail"
    /\ CanWrite(t)
    /\ LET item == tx[t].items[tx[t].i]
           pid == SelectProduct(View(t), item.ProductName)
       IN  Write(t, InsertDetail(View(t), tx[t].order_id, pid, item.Quantity))
    /\ tx' = [tx EXCEPT ![t].pc = "update"]
    /\ UNCHANGED <<initStock, lastCall, uiVars>>

\* UPDATE products SET Quantity = Quantity - ?, then the two accumulations
TxUpdate(t) ==
    /\ tx[t].pc = "update"
    /\ CanWrite(t)
    /\ LET item == tx[t].items[tx[t].i]
           pid == SelectProduct(View(t), item.ProductName)
       IN  /\ Write(t, UpdateInventory(View(t), pid, item.Quantity))
           /\ tx' = [tx EXCEPT
                       ![t].total_amount = @ + LineAmount(View(t), item),
                       ![t].ordered_products =
                           Append(@, OrderedProduct(View(t), item)),
                       ![t].i = @ + 1,
                       ![t].pc = IF tx[t].i = Len(tx[t].items) THEN "commit"
                                 ELSE "select"]
    /\ UNCHANGED <<initStock, lastCall, uiVars>>

\* cursor.execute("COMMIT") and the success return
TxCommit(t) ==
    /\ tx[t].pc = "commit"
    /\ IF lock = t
       THEN /\ products' = uncommitted.products
            /\ orders' = uncommitted.orders
            /\ orders_details' = uncommitted.orders_details
            /\ lock' = 0
            /\ uncommitted' = NoWork
       ELSE UNCHANGED <<storeVars, lock, uncommitted>>
    /\ tx' = [tx EXCEPT ![t].pc = "done",
                        ![t].result =
                            SuccessResult(tx[t].order_id, tx[t].total_amount,
                                tx[t].ordered_products, tx[t].customer)]
    /\ UNCHANGED <<initStock, lastCall, uiVars>>

\* except Exception: cursor.execute("ROLLBACK") and the error return
TxRollback(t) ==
    /\ tx[t].pc = "rollback"
    /\ IF lock = t
       THEN /\ lock' = 0
            /\ uncommitted' = NoWork
       ELSE UNCHANGED <<lock, uncommitted>>
    /\ tx' = [tx EXCEPT ![t].pc = "done",
                        ![t].result = ErrorResult(tx[t].raised, tx[t].customer)]
    /\ UNCHANGED <<storeVars, initStock, lastCall, uiVars>>

NextTx ==
    \E t \in TxIds :
       \/ TxBegin(t)
       \/ TxInsertOrder(t)
       \/ TxSelect(t)
       \/ TxInsertDetail(t)
       \/ TxUpdate(t)
       \/ TxCommit(t)
       \/ TxRollback(t)

SpecTx == InitTx /\ [][NextTx]_orderVars

(***************************************************************************)
(* Specification SpecPrice: sequences of create_order calls on a store     *)
(* whose product prices are changed between the calls.                     *)
(***************************************************************************)
Prices == {150, 200, 250}

\* the store changes the price of a product (UPDATE products SET Price)
ChangePrice ==
    /\ \E p \in ProductIds, price \in Prices :
          /\ price # products[p].Price
          /\ products' = [products EXCEPT ![p].Price = price]
    /\ UNCHANGED <<orders, orders_details, initStock, lastCall, txVars, uiVars>>

\* a create_order call of the configured customer at the current prices
CallPricedOrder ==
    /\ Len(orders) < MaxOrders
    /\ \E items \in TxArgs :
         LET out == create_order(Db, CustomerId, items)
         IN  /\ products' = out.db.products
             /\ orders' = out.db.orders
             /\ orders_details' = out.db.orders_details
    /\ UNCHANGED <<initStock, lastCall, txVars, uiVars>>

NextPrice == CallPricedOrder \/ ChangePrice

SpecPrice == InitOrder /\ [][NextPrice]_orderVars

(***************************************************************************)
(* Order-tool claims.                                                      *)
(***************************************************************************)
RECURSIVE SumSeq(_)
SumSeq(s) == IF s = <<>> THEN 0 ELSE s[1] + SumSeq(Tail(s))

OrderTotalAtCurrentPrice(db, order_id) ==
    SumSeq([k \in 1..Len(db.orders_details) |->
              IF db.orders_details[k].OrderId = order_id
              THEN db.orders_details[k].Quantity
                     * db.products[db.orders_details[k].ProductId].Price
              ELSE 0])

\* check_order_status: SUM(od.Quantity * od.UnitPrice) over the lines of
\* the order
OrderTotalAmount(db, order_id) ==
    SumSeq([k \in 1..Len(db.orders_details) |->
              IF db.orders_details[k].OrderId = order_id
              THEN db.orders_details[k].Quantity * db.orders_details[k].UnitPrice
              ELSE 0])

\* the quantities lines 1..n of items ask of product pid (well-formed lines)
AskedBefore(tbl, items, n, pid) ==
    SumSeq([k \in 1..n |->
              IF /\ items[k].kind = "ok"
                 /\ Lower(tbl[pid].ProductName) = Lower(items[k].ProductName)
              THEN items[k].Quantity ELSE 0])

NamedProducts(tbl, item) ==
    {p \in ProductIds : Lower(tbl[p].ProductName) = Lower(item.ProductName)}

\* line i cannot be served from the tables tbl once lines 1..i-1 are served
LineFails(tbl, items, i) ==
    \/ items[i].kind # "ok"
    \/ NamedProducts(tbl, items[i]) = {}
    \/ \E p \in NamedProducts(tbl, items[i]) :
          items[i].Quantity > tbl[p].Quantity - AskedBefore(tbl, items, i - 1, p)

AnyLineFails(tbl, items) == \E i \in 1..Len(items) : LineFails(tbl, items, i)

CallDone == lastCall.state = "done" /\ lastCall.customer # NoCustomer

PreDb == lastCall.pre[1]

\* C2: create_order is all-or-nothing.  When a line fails the three tables
\* are those before the call and the result is a failure with the reason
\* and the customer id; otherwise one order row, one order line per
\* requested line and every stock decrement are committed together.
C2_AllOrNothing ==
    CallDone =>
      LET items == lastCall.items
          res == lastCall.result
      IN  IF AnyLineFails(PreDb.products, items)
          THEN /\ Db = PreDb
               /\ res.status = "error"
               /\ res.message # <<>>
               /\ res.customer_id = lastCall.customer
          ELSE /\ res.status = "success"
               /\ Len(orders) = Len(PreDb.orders) + 1
               /\ SubSeq(orders, 1, Len(PreDb.orders)) = PreDb.orders
               /\ orders[Len(orders)].CustomerId = lastCall.customer
               /\ Len(orders_details) = Len(PreDb.orders_details) + Len(items)
               /\ \A k \in 1..Len(items) :
                    LET d == orders_details[Len(PreDb.orders_details) + k]
                    IN  /\ d.OrderId = Len(orders)
                        /\ d.Quantity = items[k].Quantity
                        /\ d.ProductId \in NamedProducts(PreDb.products, items[k])
               /\ \A p \in ProductIds :
                    products[p].Quantity =
                      PreDb.products[p].Quantity
                        - AskedBefore(PreDb.products, items, Len(items), p)

\* a two-line call whose first line was served and whose second line names
\* an unknown product
C2_Witness ==
    /\ CallDone
    /\ Len(lastCall.items) = 2
    /\ lastCall.items[1].kind = "ok"
    /\ lastCall.items[1].Quantity > 0
    /\ ~LineFails(PreDb.products, lastCall.items, 1)
    /\ lastCall.items[2].ProductName = "kiwi"
    /\ lastCall.result.status = "error"

\* the quantities of the committed order lines of product p
Committed(p) ==
    SumSeq([k \in 1..Len(orders_details) |->
              IF orders_details[k].ProductId = p
              THEN orders_details[k].Quantity ELSE 0])

\* C4: after any sequence of create_order calls every stock is >= 0 and
\* equals the initial stock minus the committed order-line quantities.
C4_StockAccounting ==
    \A p \in ProductIds :
       /\ products[p].Quantity >= 0
       /\ products[p].Quantity = initStock[p] - Committed(p)

\* two committed orders, one of them naming the same product on two lines
C4_Witness ==
    /\ Len(orders) = 2
    /\ \E j, k \in 1..Len(orders_details) :
          /\ j < k
          /\ orders_details[j].OrderId = orders_details[k].OrderId
          /\ orders_details[j].ProductId = orders_details[k].ProductId
          /\ orders_details[j].Quantity > 0
    /\ \E p \in ProductIds : products[p].Quantity = 0 /\ initStock[p] > 0

\* both calls ask for one unit of the same product, of which one is left
LastUnitRace(p) ==
    /\ initStock[p] = 1
    /\ \A t \in TxIds :
          /\ Len(tx[t].items) = 1
          /\ tx[t].items[1].kind = "ok"
          /\ tx[t].items[1].Quantity = 1
          /\ Lower(tx[t].items[1].ProductName) = Lower(products[p].ProductName)

TxAllDone == \A t \in TxIds : tx[t].pc = "done"

\* C3: two concurrent create_order calls for the last unit of a product
\* never both succeed: when both have returned, one has succeeded, the other
\* has failed with insufficient stock, and the stock is 0.
C3_NoOversell ==
    \A p \in ProductIds :
       LastUnitRace(p) =>
         /\ ~(\A t \in TxIds : tx[t].result.status = "success")
         /\ TxAllDone =>
              /\ \E t, u \in TxIds :
                    /\ t # u
                    /\ tx[t].result.status = "success"
                    /\ tx[u].result.status = "error"
                    /\ tx[u].result.message[1] = "Insufficient stock"
              /\ products[p].Quantity = 0
              /\ Committed(p) = 1

\* the race has been run: both calls have returned, the second after
\* waiting for the first one's transaction
C3_Witness ==
    /\ \E p \in ProductIds : LastUnitRace(p)
    /\ TxAllDone
    /\ tx[2].result.status = "success"
    /\ tx[1].result.status = "error"

(***************************************************************************)
(* Engine claims.                                                          *)
(***************************************************************************)
\* the handler runs recorded for tool call id of session s's thread
HandlerRuns(s, id) ==
    {k \in 1..Len(handlerLog) :
        handlerLog[k].thread = ThreadId(s) /\ handlerLog[k].id = id}

\* the tool call at which a thread is suspended
SuspendedCall(thread) == Last(thread.messages).tool_calls[1]

\* C1: a handler of a sensitive tool has run only for a tool call the user
\* approved; a run whose planner message routes to sensitive_tools is
\* suspended before the node, the call not executed; only an Approve moves a
\* thread past that point.
C1_SensitiveNeedsApprove ==
    /\ \A k \in 1..Len(handlerLog) :
          handlerLog[k].name \in sensitive_tool_names =>
             [thread |-> handlerLog[k].thread, id |-> handlerLog[k].id]
                \in approvals
    /\ \A s \in Sessions :
          memory[s].next = "sensitive_tools" =>
             /\ HandlerRuns(s, SuspendedCall(memory[s]).id) = {}
             /\ run[s].handler \in {"idle", "approve"}
             /\ run[s].handler = "approve" => lastEvent[s].event = "approve"

\* an approved order has been executed on a thread where an earlier pending
\* order was answered with a new prompt instead and has not been executed
C1_Witness ==
    \E s \in Sessions :
       LET msgs == memory[s].messages
       IN  /\ \E k \in 1..Len(handlerLog) :
                 /\ handlerLog[k].name = "create_order"
                 /\ handlerLog[k].thread = ThreadId(s)
           /\ Len(orders) = 1
           /\ \E i \in 1..(Len(msgs) - 1) :
                 /\ msgs[i].role = "ai"
                 /\ msgs[i].tool_calls # <<>>
                 /\ msgs[i].tool_calls[1].name = "create_order"
                 /\ HandlerRuns(s, msgs[i].tool_calls[1].id) = {}
                 /\ msgs[i + 1].role = "human"

\* C5: a prompt submitted while the thread is suspended before a sensitive
\* call does not advance the thread.
C5_PromptWhilePendingRefused ==
    \A s \in Sessions :
       ( /\ lastEvent[s].event = "chat"
         /\ lastEvent[s].pending # <<>>
         /\ lastEvent[s].memory.next = "sensitive_tools" )
       => memory[s] = lastEvent[s].memory

\* the approval shown to the user no longer matches the thread
Stale(s) ==
    /\ lastEvent[s].pending # <<>>
    /\ lastEvent[s].pending[1] # get_state(lastEvent[s].memory)

\* C6: an Approve given on a snapshot the thread has advanced past is
\* rejected with an error, changes nothing and runs no handler.
C6_StaleApprovalRejected ==
    \A s \in Sessions :
       (lastEvent[s].event = "approve" /\ Stale(s) /\ Idle(s))
       => /\ session[s].error # ""
          /\ memory[s] = lastEvent[s].memory
          /\ Len(handlerLog) = lastEvent[s].log

\* the call of the approval shown had been executed before the click
Replay(s) ==
    /\ lastEvent[s].event = "approve"
    /\ ProposedAction(lastEvent[s].pending) # <<>>
    /\ \E k \in HandlerRuns(s, ProposedAction(lastEvent[s].pending)[1].id) :
          k <= lastEvent[s].log

\* C7: an Approve repeated after the pending call has been executed fails,
\* changes neither the thread nor the store, and the handler has run once.
C7_ReplayedApproveFails ==
    \A s \in Sessions :
       (Replay(s) /\ Idle(s))
       => /\ session[s].error # ""
          /\ memory[s] = lastEvent[s].memory
          /\ Len(handlerLog) = lastEvent[s].log
          /\ Cardinality(HandlerRuns(s,
                ProposedAction(lastEvent[s].pending)[1].id)) = 1

\* C8: when the user denies a pending sensitive call with a non-empty
\* reason, a tool-result message that answers the call and contains the
\* reason is appended to the thread, the handler does not run, the planner
\* is consulted next and the pending approval is cleared.
C8_DenyTakesEffect ==
    \A s \in Sessions :
       ( /\ lastEvent[s].event = "reason"
         /\ lastEvent[s].reason # ""
         /\ lastEvent[s].memory.next = "sensitive_tools" )
       => LET before == lastEvent[s].memory.messages
              call == SuspendedCall(lastEvent[s].memory)
          IN  /\ Len(memory[s].messages) > Len(before)
              /\ memory[s].messages[Len(before) + 1].role = "tool"
              /\ memory[s].messages[Len(before) + 1].tool_call_id = call.id
              /\ memory[s].messages[Len(before) + 1].content
                    = <<"API call denied by user", lastEvent[s].reason>>
              /\ HandlerRuns(s, call.id) = {}
              /\ session[s].pending_approval = <<>>

\* session s takes a step
Acts(s) ==
    <<memory[s], session[s], run[s], lastEvent[s]>>'
       # <<memory[s], session[s], run[s], lastEvent[s]>>

\* C9: no step of a script run the user starts with Deny (the click, the
\* reason) changes the tables products, orders and orders_details.
C9_DenyLeavesStore ==
    [][\A s \in Sessions :
          (Acts(s) /\ lastEvent'[s].event \in {"deny", "reason"})
          => UNCHANGED storeVars]_vars

\* the user has clicked Deny and given a reason for a pending order that
\* the stock can serve
C9_Witness ==
    \E s \in Sessions :
       /\ lastEvent[s].event = "reason"
       /\ lastEvent[s].memory.next = "sensitive_tools"
       /\ SuspendedCall(lastEvent[s].memory).name = "create_order"
       /\ ~AnyLineFails(products, SuspendedCall(lastEvent[s].memory).args)
       /\ Idle(s)

C11_AtMostOneReprompt ==
    \A s \in Sessions : run[s].reprompts <= 1

\* the turn session s started with its last prompt has ended with an error
FailedTurn(s) ==
    /\ lastEvent[s].event = "chat"
    /\ Idle(s)
    /\ session[s].error = "Error processing message"

\* C12: when the planner fails during a turn, the error is surfaced and the
\* persisted thread (messages and next node) is the one before the turn; the
\* user message of the failed turn is not in it.
C12_FailedTurnLeavesThread ==
    \A s \in Sessions :
       FailedTurn(s) => memory[s] = lastEvent[s].memory

\* C13: a tool call whose name is in neither safe_tools nor sensitive_tools
\* is never routed to a tool node.
C13_UnknownToolNotRouted ==
    \A s \in Sessions :
       memory[s].next \in {"safe_tools", "sensitive_tools"}
       => SuspendedCall(memory[s]).name \in safe_tools \cup sensitive_tools

\* C14: a failure inside a tool handler is data, not an exception: every
\* create_order call that does not succeed, a call without customer id and
\* a call with a malformed line included, returns a structured failure (a
\* result with status "error" and the reason), which the tool node puts in
\* the tool-result message.
C14_OrderFailureIsStructured ==
    lastCall.state = "done" =>
       \/ lastCall.result.status = "success"
       \/ /\ lastCall.result.status = "error"
          /\ lastCall.result.message # <<>>

\* every tool call the planner has requested on the thread is a safe tool's
SafeOnly(s) ==
    \A i \in 1..Len(memory[s].messages) :
       \A k \in 1..Len(memory[s].messages[i].tool_calls) :
          memory[s].messages[i].tool_calls[k].name \in safe_tools

\* C15: while the planner requests only safe tools, each turn makes the
\* thread longer, the run is never suspended (a run that has ended without
\* error has left no node to run) and pending_approval stays None.
C15_SafeTurnsNeverPend ==
    \A s \in Sessions :
       SafeOnly(s) =>
          /\ session[s].pending_approval = <<>>
          /\ memory[s].next # "sensitive_tools"
          /\ (Idle(s) /\ session[s].error = "") => memory[s].next = ""
          /\ lastEvent[s].event = "chat" =>
                Len(memory[s].messages) > Len(lastEvent[s].memory.messages)

\* two turns on one thread, a safe tool executed in the first one
C15_Witness ==
    \E s \in Sessions :
       /\ SafeOnly(s)
       /\ Idle(s)
       /\ session[s].error = ""
       /\ lastEvent[s].event = "chat"
       /\ lastEvent[s].memory.messages # <<>>
       /\ \E i \in 1..Len(lastEvent[s].memory.messages) :
             /\ lastEvent[s].memory.messages[i].role = "tool"
             /\ HandlerRuns(s, lastEvent[s].memory.messages[i].tool_call_id) # {}

\* the turn session s started with its last prompt has ended at END
DoneTurn(s) ==
    /\ lastEvent[s].event = "chat"
    /\ Idle(s)
    /\ session[s].error = ""
    /\ memory[s].next = ""

\* C16: after a turn that ends in Done the planner's final non-empty answer
\* is the last message of the thread and is in the list of messages the
\* front-end displays, also when safe tools ran earlier in the turn.
C16_DoneTurnShowsAnswer ==
    \A s \in Sessions :
       DoneTurn(s) =>
          LET answer == Last(memory[s].messages)
          IN  /\ answer.role = "ai"
              /\ answer.content # <<>>
              /\ \E j \in 1..Len(session[s].messages) :
                    session[s].messages[j] = answer

\* the sensitive call at which the thread was suspended when the user acted
\* is a one-line create_order the stock could serve
ServableOrder(s) ==
    /\ lastEvent[s].memory.next = "sensitive_tools"
    /\ LET call == SuspendedCall(lastEvent[s].memory)
       IN  /\ call.name = "create_order"
           /\ Len(call.args) = 1
           /\ call.args[1].kind = "ok"
           /\ call.args[1].Quantity > 0
           /\ ~AnyLineFails(ProductRows(lastEvent[s].stock), call.args)

\* C17: a turn in which the planner requests create_order for q units of a
\* product with stock s >= q and price p ends suspended with the approval
\* pending and the stock still s.  After Approve the order is committed
\* with total q * p and the stock is s - q, a tool-result message with the
\* order result answers the call, and when the run has ended the planner's
\* following message is in the thread.
C17_ApprovedOrderCommitted ==
    \A s \in Sessions :
       /\ ( /\ lastEvent[s].event = "chat"
            /\ Idle(s)
            /\ session[s].error = ""
            /\ memory[s].next = "sensitive_tools" )
          => /\ Stock(products) = lastEvent[s].stock
             /\ session[s].pending_approval = <<get_state(memory[s])>>
             /\ HandlerRuns(s, SuspendedCall(memory[s]).id) = {}
       /\ ( /\ lastEvent[s].event = "approve"
            /\ ServableOrder(s)
            /\ Len(memory[s].messages) > Len(lastEvent[s].memory.messages) )
          => LET before == lastEvent[s].memory.messages
                 call == SuspendedCall(lastEvent[s].memory)
                 item == call.args[1]
                 pid == SelectProduct(Db, item.ProductName)
                 answer == memory[s].messages[Len(before) + 1]
             IN  /\ answer.role = "tool"
                 /\ answer.tool_call_id = call.id
                 /\ answer.result.status = "success"
                 /\ answer.result.total_amount
                       = item.Quantity * products[pid].Price
                 /\ products[pid].Quantity
                       = lastEvent[s].stock[pid] - item.Quantity
                 /\ answer.result.order_id = Len(orders)
                 /\ \E j \in 1..Len(orders_details) :
                       /\ orders_details[j].OrderId = Len(orders)
                       /\ orders_details[j].ProductId = pid
                       /\ orders_details[j].Quantity = item.Quantity
                 /\ (Idle(s) /\ session[s].error = "") =>
                       /\ Len(memory[s].messages) >= Len(before) + 2
                       /\ memory[s].messages[Len(before) + 2].role = "ai"

\* an order the stock could serve has been approved and executed, and the
\* planner has confirmed it
C17_Witness ==
    \E s \in Sessions :
       /\ lastEvent[s].event = "approve"
       /\ ServableOrder(s)
       /\ Idle(s)
       /\ session[s].error = ""
       /\ memory[s].next = ""
       /\ Len(memory[s].messages) = Len(lastEvent[s].memory.messages) + 2
       /\ Last(memory[s].messages).content = <<"answer">>
       /\ Len(orders) = 1

\* the call was a single well-formed line naming a product of the store
SingleLineCall ==
    /\ CallDone
    /\ Len(lastCall.items) = 1
    /\ lastCall.items[1].kind = "ok"
    /\ NamedProducts(PreDb.products, lastCall.items[1]) # {}

\* C18: a single-line create_order of quantity q against a product with
\* stock s succeeds and leaves stock s - q exactly when q <= s; when q > s
\* it fails with an insufficient-stock failure and the stock stays s.
C18_StockBoundary ==
    SingleLineCall =>
       LET q == lastCall.items[1].Quantity
           pid == SelectProduct(PreDb, lastCall.items[1].ProductName)
           s == PreDb.products[pid].Quantity
           res == lastCall.result
       IN  /\ (res.status = "success" /\ products[pid].Quantity = s - q)
                 <=> q <= s
           /\ q > s =>
                 /\ res.status = "error"
                 /\ res.message[1] = "Insufficient stock"
                 /\ products[pid].Quantity = s
                 /\ Db = PreDb

\* the whole stock of a product has been ordered: q = s = MaxStock succeeds
\* and leaves 0
C18_Witness ==
    /\ SingleLineCall
    /\ lastCall.items[1].Quantity = MaxStock
    /\ LET pid == SelectProduct(PreDb, lastCall.items[1].ProductName)
       IN  /\ PreDb.products[pid].Quantity = MaxStock
           /\ products[pid].Quantity = 0
    /\ lastCall.result.status = "success"

\* the unit price, before the call, of the product line k of items names
PriceOf(db, items, k) ==
    db.products[SelectProduct(db, items[k].ProductName)].Price

Undecided(s, i) ==
    LET msgs == memory[s].messages
    IN  /\ msgs[i].role = "ai"
        /\ msgs[i].tool_calls # <<>>
        /\ msgs[i].tool_calls[1].name \in sensitive_tool_names
        /\ [thread |-> ThreadId(s), id |-> msgs[i].tool_calls[1].id]
              \notin approvals
        /\ \A j \in 1..Len(msgs) :
              msgs[j].tool_call_id # msgs[i].tool_calls[1].id

\* C20: a pending approval is resolved by a human decision only: as long as
\* the call is neither approved nor denied, the thread stays suspended
\* before sensitive_tools with that call as its last message.
C20_PendingUntilDecision ==
    \A s \in Sessions :
       \A i \in 1..Len(memory[s].messages) :
          Undecided(s, i) =>
             /\ i = Len(memory[s].messages)
             /\ memory[s].next = "sensitive_tools"

\* every tool call requested by an assistant message of the thread is
\* answered by a tool-result message with its call identifier
AllCallsAnswered(msgs) ==
    \A i \in 1..Len(msgs) :
       \A k \in 1..Len(msgs[i].tool_calls) :
          \E j \in 1..Len(msgs) :
             /\ msgs[j].role = "tool"
             /\ msgs[j].tool_call_id = msgs[i].tool_calls[k].id

\* C21: whenever the assistant node runs, every tool call requested earlier
\* on the thread has been answered by a tool-result message.
C21_PlannerSeesAnsweredCalls ==
    \A s \in Sessions :
       (~Idle(s) /\ memory[s].next = "assistant")
       => AllCallsAnswered(memory[s].messages)

IsPrefix(a, b) == Len(a) <= Len(b) /\ SubSeq(b, 1, Len(a)) = a

\* no two messages of msgs have the same identifier
DistinctIds(msgs) ==
    \A i, j \in 1..Len(msgs) : msgs[i].id = msgs[j].id => i = j

\* C22: a thread's message sequence is append-only: in every step that
\* stays on the thread, the sequence before is a prefix of the sequence
\* after, and no message appears twice, although every turn resubmits the
\* whole list of displayed messages.
C22_AppendOnly ==
    [][\A s \in Sessions :
          session'[s].thread_id = session[s].thread_id
          => /\ IsPrefix(memory[s].messages, memory'[s].messages)
             /\ DistinctIds(memory'[s].messages)]_vars

\* a second turn has resubmitted a list that holds the first turn's prompt
\* and the assistant's answer to it
C22_Witness ==
    \E s \in Sessions :
       /\ lastEvent[s].event = "chat"
       /\ Len(lastEvent[s].memory.messages) >= 2
       /\ Len(session[s].messages) >= 3
       /\ \E j \in 1..Len(session[s].messages) :
             session[s].messages[j].role = "ai"
       /\ Len(memory[s].messages) > Len(lastEvent[s].memory.messages)

C24_UnitPriceFrozen ==
    [][/\ \A j \in 1..Len(orders_details) :
             /\ j <= Len(orders_details')
             /\ orders_details'[j] = orders_details[j]
       /\ \A j \in (Len(orders_details) + 1)..Len(orders_details') :
             orders_details'[j].UnitPrice
                = products[orders_details'[j].ProductId].Price
       /\ \A o \in 1..Len(orders) :
             OrderTotalAmount(Db', o) = OrderTotalAmount(Db, o)]_vars

\* the price of a product has changed since an order for it was placed
C24_Witness ==
    \E j \in 1..Len(orders_details) :
       /\ orders_details[j].Quantity > 0
       /\ orders_details[j].UnitPrice
             # products[orders_details[j].ProductId].Price
       /\ OrderTotalAmount(Db, orders_details[j].OrderId)
             # OrderTotalAtCurrentPrice(Db, orders_details[j].OrderId)

\* the script run session s started with a prompt or an Approve has
\* returned without error
Returned(s) ==
    /\ lastEvent[s].event \in {"chat", "approve"}
    /\ Idle(s)
    /\ session[s].error = ""

\* C25: when a turn or an Approve has returned, the thread read back holds
\* the messages it held before followed by those of the step, every
\* displayed message among them, and its next node is none after Done or
\* sensitive_tools after a suspension; the snapshot main() reads after a
\* suspended turn is that state.
C25_ReadYourWrites ==
    \A s \in Sessions :
       Returned(s) =>
          LET msgs == memory[s].messages
          IN  /\ IsPrefix(lastEvent[s].memory.messages, msgs)
              /\ lastEvent[s].event = "chat" =>
                    /\ Len(msgs) >= Len(lastEvent[s].memory.messages) + 2
                    /\ msgs[Len(lastEvent[s].memory.messages) + 1].role = "human"
              /\ \A j \in 1..Len(session[s].messages) :
                    \E i \in 1..Len(msgs) : msgs[i] = session[s].messages[j]
              /\ Last(msgs).role = "ai"
              /\ memory[s].next =
                    IF Last(msgs).tool_calls = <<>> THEN ""
                    ELSE "sensitive_tools"
              /\ (lastEvent[s].event = "chat" /\ memory[s].next # "") =>
                    session[s].pending_approval =
                       <<[values |-> msgs, next |-> memory[s].next]>>

\* a turn has run a safe tool and then stopped before a sensitive call
C25_Witness ==
    \E s \in Sessions :
       /\ Returned(s)
       /\ lastEvent[s].event = "chat"
       /\ memory[s].next = "sensitive_tools"
       /\ Len(memory[s].messages) = Len(lastEvent[s].memory.messages) + 4
       /\ session[s].pending_approval # <<>>

\* the create_order calls that were approved and executed
ExecutedOrders ==
    {j \in 1..Len(handlerLog) :
        /\ handlerLog[j].name = "create_order"
        /\ [thread |-> handlerLog[j].thread, id |-> handlerLog[j].id]
              \in approvals}

\* C26: every order row carries a customer identifier, that of the session
\* on whose thread a create_order call was approved and executed; there
\* are no more order rows than such calls.
C26_OrderCarriesCustomer ==
    /\ Len(orders) <= Cardinality(ExecutedOrders)
    /\ \A k \in 1..Len(orders) :
          /\ orders[k].CustomerId # NoCustomer
          /\ \E j \in ExecutedOrders :
                orders[k].CustomerId
                   = session[handlerLog[j].thread[1]].customer_id

\* an order row exists, written by an approved call
C26_Witness ==
    /\ Len(orders) = 1
    /\ orders[1].CustomerId = CustomerId
    /\ Len(orders_details) = 1
    /\ ExecutedOrders # {}

\* the node the edges of the graph lead to after the assistant node has
\* added its message to msgs ("": the run ends)
AfterAssistant(msgs) ==
    IF Last(msgs).tool_calls = <<>> THEN ""
    ELSE IF Last(msgs).tool_calls[1].name \in sensitive_tool_names
    THEN "sensitive_tools"
    ELSE "safe_tools"

\* C27: the transitions of a run are exactly these.  A run a prompt starts
\* begins at the assistant node.  A step of the assistant node appends the
\* planner's message and leads to the end, to sensitive_tools when the
\* first tool call is sensitive, to safe_tools otherwise.  A step of a tool
\* node appends the tool result answering the first call and leads to the
\* assistant node, with the run still going, no user event in between.
C27_Transitions ==
    [][\A s \in Sessions :
          LET before == memory[s]
              after == memory'[s]
              userEvent == lastEvent'[s] # lastEvent[s]
          IN  /\ (userEvent /\ lastEvent'[s].event = "chat") =>
                    /\ after.next = "assistant"
                    /\ Last(after.messages).role = "human"
              /\ (~userEvent /\ after # before) =>
                    /\ before.next # ""
                    /\ Len(after.messages) = Len(before.messages) + 1
                    /\ before.next = "assistant" =>
                          /\ Last(after.messages).role = "ai"
                          /\ after.next = AfterAssistant(after.messages)
                    /\ before.next \in {"safe_tools", "sensitive_tools"} =>
                          /\ before.next = AfterAssistant(before.messages)
                          /\ Last(after.messages).role = "tool"
                          /\ Last(after.messages).tool_call_id
                                = Last(before.messages).tool_calls[1].id
                          /\ after.next = "assistant"
                          /\ run'[s].handler # "idle"
              /\ (before.next = "safe_tools") => run[s].handler # "idle"]_vars

\* one thread has gone from the assistant to safe_tools, back, to
\* sensitive_tools, back, and to the end
C27_Witness ==
    \E s \in Sessions :
       LET msgs == memory[s].messages
       IN  /\ Len(msgs) = 6
           /\ msgs[2].tool_calls # <<>>
           /\ msgs[2].tool_calls[1].name \in safe_tools
           /\ msgs[3].role = "tool"
           /\ msgs[4].tool_calls # <<>>
           /\ msgs[4].tool_calls[1].name \in sensitive_tool_names
           /\ msgs[5].role = "tool"
           /\ msgs[6].role = "ai"
           /\ memory[s].next = ""

\* the first line of items that cannot be served from the tables tbl
FirstFailing(tbl, items) ==
    CHOOSE i \in 1..Len(items) :
       /\ LineFails(tbl, items, i)
       /\ \A k \in 1..(i - 1) : ~LineFails(tbl, items, k)

\* C28: create_order finds each line's product by its name whatever the
\* case and checks the lines in request order.  The failure it reports is
\* that of the first failing line: product not found when no product has
\* the name, insufficient stock when the stock left by the earlier lines of
\* the same order is less than the quantity asked.
C28_FirstFailingLine ==
    (CallDone /\ AnyLineFails(PreDb.products, lastCall.items)) =>
       LET items == lastCall.items
           i == FirstFailing(PreDb.products, items)
           named == NamedProducts(PreDb.products, items[i])
           res == lastCall.result
       IN  /\ res.status = "error"
           /\ items[i].kind = "nokey" => res.message[1] = "KeyError"
           /\ items[i].kind # "nokey" =>
                 /\ res.message[2] = items[i].ProductName
                 /\ res.message[1] =
                       IF named = {} THEN "Product not found"
                       ELSE IF items[i].kind = "badqty" THEN "TypeError"
                       ELSE "Insufficient stock"

\* the second line asks again for the product of the first line, named in
\* lower case; alone it could be served, after the first line it cannot
C28_Witness ==
    /\ CallDone
    /\ Len(lastCall.items) = 2
    /\ lastCall.items[1].ProductName = "gala"
    /\ lastCall.items[1].Quantity > 0
    /\ lastCall.items[2].ProductName = "gala"
    /\ lastCall.items[2].kind = "ok"
    /\ lastCall.items[2].Quantity <= PreDb.products[1].Quantity
    /\ lastCall.result.status = "error"
    /\ lastCall.result.message = <<"Insufficient stock", "gala">>

\* C29: after a UI step pending_approval is set exactly when the thread is
\* suspended before sensitive_tools, and then shows the call the thread is
\* suspended at; in particular, when the run that follows an Approve has
\* returned, a sensitive call the planner requested in it is offered for
\* approval.
C29_PendingAgreesWithThread ==
    \A s \in Sessions :
       (Returned(s) /\ lastEvent[s].event = "approve") =>
          /\ session[s].pending_approval # <<>>
                <=> memory[s].next = "sensitive_tools"
          /\ session[s].pending_approval # <<>> =>
                ProposedAction(session[s].pending_approval)
                   = <<SuspendedCall(memory[s])>>

\* C30: create_order never increases stock: whatever the lines and their
\* quantities, zero and negative ones included, each product's stock after
\* the call is at most its stock before the call.
C30_StockNeverIncreases ==
    lastCall.state = "done" =>
       \A p \in ProductIds :
          products[p].Quantity <= PreDb.products[p].Quantity

\* C31: every order create_order commits has at least one order line: a
\* call that reports success has written a line for its order, so
\* check_order_status finds the order.
C31_OrderHasLines ==
    (CallDone /\ lastCall.result.status = "success") =>
       \E j \in 1..Len(orders_details) :
          orders_details[j].OrderId = lastCall.result.order_id

\* C32: a re-prompt of the planner leaves the persisted thread and the
\* displayed messages as they are, and a visit of the assistant node adds
\* exactly one message to the thread, the planner's final result, which is
\* not empty.
C32_RepromptNotPersisted ==
    [][\A s \in Sessions :
          /\ run'[s].reprompts > run[s].reprompts =>
                /\ memory'[s] = memory[s]
                /\ session'[s] = session[s]
          /\ ( /\ memory[s].next = "assistant"
               /\ lastEvent'[s] = lastEvent[s]
               /\ memory'[s] # memory[s] ) =>
                /\ memory'[s].messages
                      = Append(memory[s].messages, Last(memory'[s].messages))
                /\ Last(memory'[s].messages).role = "ai"
                /\ \/ Last(memory'[s].messages).content # <<>>
                   \/ Last(memory'[s].messages).tool_calls # <<>>]_vars

\* the planner has been re-prompted twice in the visit that follows a tool
\* result, and the thread still ends with that tool result
C32_Witness ==
    \E s \in Sessions :
       /\ run[s].reprompts = 2
       /\ memory[s].next = "assistant"
       /\ Len(memory[s].messages) = 3
       /\ Last(memory[s].messages).role = "tool"

\* C33: Start New Chat gives the session a thread identifier it has not
\* had before, an empty thread, an empty message list and no pending
\* approval; thread identifiers never come back, and a tool handler the
\* session runs always runs on the session's current thread, so that a call
\* pending on an abandoned thread is never executed.
C33_NewChatAbandonsThread ==
    [][\A s \in Sessions :
          /\ session'[s].thread_id >= session[s].thread_id
          /\ (lastEvent'[s] # lastEvent[s] /\ lastEvent'[s].event = "new_chat")
                => /\ session'[s].thread_id > session[s].thread_id
                   /\ session'[s].messages = <<>>
                   /\ session'[s].pending_approval = <<>>
                   /\ memory'[s] = EmptyThread
                   /\ handlerLog' = handlerLog
          /\ \A j \in (Len(handlerLog) + 1)..Len(handlerLog') :
                handlerLog'[j].thread[1] = s =>
                   /\ handlerLog'[j].thread[2] = session[s].thread_id
                   /\ handlerLog'[j].id = SuspendedCall(memory[s]).id]_vars

\* a session has started a new chat while an order was waiting for approval
\* on its thread, and the order has not been executed
C33_Witness ==
    \E s \in Sessions :
       /\ lastEvent[s].event = "new_chat"
       /\ lastEvent[s].memory.next = "sensitive_tools"
       /\ lastEvent[s].pending # <<>>
       /\ SuspendedCall(lastEvent[s].memory).name = "create_order"
       /\ \A j \in 1..Len(handlerLog) :
             handlerLog[j].id # SuspendedCall(lastEvent[s].memory).id
       /\ session[s].thread_id = 2
       /\ session[s].pending_approval = <<>>

\* C34: create_order called without a configured customer id leaves the
\* three tables as they were and returns a failure result with status
\* "error", like every other create_order failure.
C34_NoCustomerIsErrorResult ==
    (lastCall.state = "done" /\ lastCall.customer = NoCustomer) =>
       /\ Db = PreDb
       /\ lastCall.result.status = "error"

(***************************************************************************)
(* Specification SpecStatus: orders of two customers and check_order_status *)
(* calls, with and without an order id, made for either of them.           *)
(***************************************************************************)
\* the customer id of another thread's config
OtherCustomerId == "7001 000001"

\* the order_id argument; 0 stands for None
OrderIdArgs == 0..(MaxOrders + 1)

\* the argument lists of the orders placed before a status query
StatusArgs ==
    {<<>>,
     <<[kind |-> "ok", ProductName |-> "gala", Quantity |-> 1]>>,
     <<[kind |-> "ok", ProductName |-> "FUJI", Quantity |-> 1],
       [kind |-> "ok", ProductName |-> "gala", Quantity |-> 1]>>}

\* FROM orders o JOIN orders_details od ON o.OrderId = od.OrderId: the
\* order has a line (every line's product is in products)
JoinsDetails(db, order_id) ==
    \E j \in 1..Len(db.orders_details) :
       db.orders_details[j].OrderId = order_id

OrderNotFound(customer_id, order_id) ==
    [status |-> "error", message |-> <<"Order not found">>,
     customer_id |-> customer_id, order_id |-> order_id]

check_order_status_any_customer(db, customer_id, order_id) ==
    LET hits == {k \in 1..Len(db.orders) :
                    /\ db.orders[k].OrderId = order_id
                    /\ JoinsDetails(db, order_id)}
    IN  IF hits = {} THEN OrderNotFound(customer_id, order_id)
        ELSE LET order == db.orders[CHOOSE k \in hits : TRUE]
             IN  [status |-> "success", order_id |-> order.OrderId,
                  order_status |-> order.Status,
                  total_amount |-> OrderTotalAmount(db, order.OrderId),
                  customer_id |-> customer_id]

\* check_order_status(order_id) with an order id:
\*   ... WHERE o.OrderId = ? AND o.CustomerId = ? GROUP BY o.OrderId
check_order_status_order(db, customer_id, order_id) ==
    LET hits == {k \in 1..Len(db.orders) :
                    /\ db.orders[k].OrderId = order_id
                    /\ db.orders[k].CustomerId = customer_id
                    /\ JoinsDetails(db, order_id)}
    IN  IF hits = {} THEN OrderNotFound(customer_id, order_id)
        ELSE LET order == db.orders[CHOOSE k \in hits : TRUE]
             IN  [status |-> "success", order_id |-> order.OrderId,
                  order_status |-> order.Status,
                  total_amount |-> OrderTotalAmount(db, order.OrderId),
                  customer_id |-> customer_id]

\* check_order_status(None): ... WHERE o.CustomerId = ? GROUP BY o.OrderId.
\* The rows are kept as a set (ORDER BY o.OrderDate leaves orders of the
\* same second in any order).
check_order_status_orders(db, customer_id) ==
    [status |-> "success", customer_id |-> customer_id,
     orders |->
        {[order_id |-> db.orders[k].OrderId, status |-> db.orders[k].Status,
          item_count |-> Cardinality({j \in 1..Len(db.orders_details) :
                             db.orders_details[j].OrderId = db.orders[k].OrderId}),
          total_amount |-> OrderTotalAmount(db, db.orders[k].OrderId)] :
           k \in {h \in 1..Len(db.orders) :
                    /\ db.orders[h].CustomerId = customer_id
                    /\ JoinsDetails(db, db.orders[h].OrderId)}}]

\* check_order_status(order_id, config=config)
check_order_status_call(db, customer_id, order_id) ==
    IF customer_id = NoCustomer
    THEN [status |-> "ValueError", message |-> <<"No customer ID configured.">>]
    ELSE IF order_id # 0
         THEN check_order_status_order(db, customer_id, order_id)
         ELSE check_order_status_orders(db, customer_id)

\* create_order for one of the two customers
CallOrderAs ==
    /\ Len(orders) < MaxOrders
    /\ \E customer_id \in {CustomerId, OtherCustomerId}, items \in StatusArgs :
         LET out == create_order(Db, customer_id, items)
         IN  /\ products' = out.db.products
             /\ orders' = out.db.orders
             /\ orders_details' = out.db.orders_details
    /\ UNCHANGED <<initStock, lastCall, txVars, uiVars>>

\* check_order_status for one of the customers, or without a customer;
\* lastCall.items holds the order_id argument
CallCheckOrderStatus ==
    /\ \E customer_id \in {CustomerId, OtherCustomerId, NoCustomer},
          order_id \in OrderIdArgs :
         lastCall' = [NoCall EXCEPT
                        !.state = "status", !.pre = <<Db>>,
                        !.customer = customer_id, !.items = <<order_id>>,
                        !.result = check_order_status_call(Db, customer_id,
                                                           order_id)]
    /\ UNCHANGED <<storeVars, initStock, txVars, uiVars>>

NextStatus == CallOrderAs \/ CallCheckOrderStatus

SpecStatus == InitOrder /\ [][NextStatus]_orderVars

StatusDone == lastCall.state = "status" /\ lastCall.customer # NoCustomer

\* C35: check_order_status is scoped to the caller's customer.  A result for
\* an order id is a success only for an order of the configured customer;
\* for an order id that is not one of the customer's orders, another
\* customer's order or no order at all, the result is the same "Order not
\* found" failure; without an order id every order returned is one of the
\* customer's.
C35_StatusScoped ==
    StatusDone =>
       LET c == lastCall.customer
           i == lastCall.items[1]
           res == lastCall.result
           own(o) == \E k \in 1..Len(PreDb.orders) :
                        /\ PreDb.orders[k].OrderId = o
                        /\ PreDb.orders[k].CustomerId = c
       IN  /\ (i # 0 /\ res.status = "success") =>
                 res.order_id = i /\ own(i)
           /\ (i # 0 /\ ~own(i)) => res = OrderNotFound(c, i)
           /\ i = 0 =>
                 /\ res.status = "success"
                 /\ \A o \in res.orders : own(o.order_id)

\* the configured customer, who has an order of their own, has asked for
\* the order of another customer and got "Order not found"
C35_Witness ==
    /\ StatusDone
    /\ lastCall.customer = CustomerId
    /\ lastCall.result = OrderNotFound(CustomerId, lastCall.items[1])
    /\ \E k, h \in 1..Len(PreDb.orders) :
          /\ PreDb.orders[k].OrderId = lastCall.items[1]
          /\ PreDb.orders[k].CustomerId = OtherCustomerId
          /\ JoinsDetails(PreDb, lastCall.items[1])
          /\ PreDb.orders[h].CustomerId = CustomerId
          /\ JoinsDetails(PreDb, PreDb.orders[h].OrderId)

(***************************************************************************)
(* Specification SpecSearch: orders that take stock, and calls of the three *)
(* catalogue tools on the store the orders leave.                          *)
(***************************************************************************)
\* the argument lists of the orders placed before a catalogue call
SearchOrderArgs ==
    {<<[kind |-> "ok", ProductName |-> "gala", Quantity |-> 1]>>,
     <<[kind |-> "ok", ProductName |-> "gala", Quantity |-> 2]>>,
     <<[kind |-> "ok", ProductName |-> "FUJI", Quantity |-> 1]>>,
     <<[kind |-> "ok", ProductName |-> "FUJI", Quantity |-> 2]>>,
     <<[kind |-> "ok", ProductName |-> "FUJI", Quantity |-> 1],
       [kind |-> "ok", ProductName |-> "gala", Quantity |-> 1]>>}

\* create_order of the configured customer
CallSearchOrder ==
    /\ Len(orders) < MaxOrders
    /\ \E items \in SearchOrderArgs :
         LET out == create_order(Db, CustomerId, items)
         IN  /\ products' = out.db.products
             /\ orders' = out.db.orders
             /\ orders_details' = out.db.orders_details
    /\ UNCHANGED <<initStock, lastCall, txVars, uiVars>>

\* search_products with some filters; lastCall.items holds the filters
CallSearchProducts ==
    /\ \E a \in SearchFilters :
         lastCall' = [NoCall EXCEPT
                        !.state = "search", !.pre = <<Db>>,
                        !.customer = CustomerId, !.items = <<a>>,
                        !.result = search_products_args(Db, a)]
    /\ UNCHANGED <<storeVars, initStock, txVars, uiVars>>

\* search_products_recommendations for a customer with or without orders,
\* or without a customer
CallRecommendations ==
    /\ \E customer_id \in {CustomerId, OtherCustomerId, NoCustomer} :
         lastCall' = [NoCall EXCEPT
                        !.state = "recommend", !.pre = <<Db>>,
                        !.customer = customer_id,
                        !.result = search_products_recommendations(Db, customer_id)]
    /\ UNCHANGED <<storeVars, initStock, txVars, uiVars>>

CallGetAvailableCategories ==
    /\ lastCall' = [NoCall EXCEPT
                      !.state = "categories", !.pre = <<Db>>,
                      !.customer = CustomerId,
                      !.result = get_available_categories(Db)]
    /\ UNCHANGED <<storeVars, initStock, txVars, uiVars>>

NextSearch ==
    \/ CallSearchOrder
    \/ CallSearchProducts
    \/ CallRecommendations
    \/ CallGetAvailableCategories

SpecSearch == InitOrder /\ [][NextSearch]_orderVars

\* C36: out-of-stock products are never offered.  Every product row that
\* search_products or search_products_recommendations returns, and every
\* category get_available_categories returns, is of a product whose stock
\* is greater than 0 in the store the call read.
C36_InStockOnly ==
    LET res == lastCall.result
        stocked(p) == PreDb.products[p].Quantity > 0
    IN  /\ lastCall.state = "search" =>
              \A k \in 1..Len(res.products) : stocked(res.products[k].product_id)
        /\ (lastCall.state = "recommend" /\ res.status = "success") =>
              \A r \in res.recommendations : stocked(r.product_id)
        /\ lastCall.state = "categories" =>
              \A c \in res.categories :
                 \E p \in ProductIds : Category(p) = c /\ stocked(p)

\* orders have taken the stock of Gala to 0 while Fuji is in stock, and an
\* unfiltered search returns Fuji alone
C36_Witness ==
    /\ lastCall.state = "search"
    /\ lastCall.items = <<NoFilters>>
    /\ initStock[1] > 0
    /\ PreDb.products[1].Quantity = 0
    /\ PreDb.products[2].Quantity > 0
    /\ lastCall.result.status = "success"
    /\ Len(lastCall.result.products) = 1
    /\ lastCall.result.products[1].product_id = 2

\* C37: search_products returns a result with status "success" in every
\* store state, also when no product matches the filters and when the
\* stock of every product is 0.
C37_SearchAlwaysSucceeds ==
    lastCall.state = "search" => lastCall.result.status = "success"

====
